---- MODULE Spec2Model ----
(***************************************************************************)
(* The typing-session engine of thokr (src/src/thok.rs): struct Thok, its  *)
(* edit operations, the completion predicate, calc_results and the results *)
(* log written by save_results.                                            *)
(*                                                                         *)
(* Conventions.  Option<T> is a set: {} is None, {v} is Some(v).  SystemTime*)
(* values are integers, in milliseconds.  seconds_remaining is counted in  *)
(* tick quanta (TICK_RATE_MS / 1000 seconds each).  A panic (an unwrap of  *)
(* None, an out-of-range Vec index) sets panicked; nothing runs after it.  *)
(***************************************************************************)
EXTENDS Integers, Sequences, FiniteSets, TLC

VARIABLES
    prompt,             \* Thok.prompt: the sequence of the prompt's chars
    death_mode,         \* Thok.death_mode
    number_of_secs,     \* Thok.number_of_secs: Option, in tick quanta
    input,              \* Thok.input: Vec<Input>
    cursor_pos,         \* Thok.cursor_pos
    started_at,         \* Thok.started_at: Option<SystemTime>
    seconds_remaining,  \* Thok.seconds_remaining: Option, in tick quanta
    wpm,                \* Thok.wpm
    accuracy,           \* Thok.accuracy
    std_dev,            \* Thok.std_dev
    wpm_coords,         \* Thok.wpm_coords
    now,                \* SystemTime::now(), milliseconds
    panicked,           \* a panic has unwound the program
    phase,              \* the caller's position: "typing" or "results"
    sessions,           \* number of Thok::new calls so far
    dir_exists,         \* the configuration directory exists
    log_exists,         \* log.csv exists
    log,                \* the lines of log.csv
    saves,              \* number of save_results calls so far
    persisted,          \* number of save_results calls that wrote their row
    op,                 \* the last operation called on the session
    pre                 \* the state that operation was called in

vars == <<prompt, death_mode, number_of_secs, input, cursor_pos, started_at,
          seconds_remaining, wpm, accuracy, std_dev, wpm_coords, now, panicked,
          phase, sessions, dir_exists, log_exists, log, saves, persisted, op, pre>>

config == <<prompt, death_mode, number_of_secs>>
results == <<wpm, accuracy, std_dev, wpm_coords>>
files == <<dir_exists, log_exists, log, saves, persisted>>

----------------------------------------------------------------------------
\* Bounds of the model.

\* The clock advances in steps of ClockStepMs, at most MaxClockSteps times.
MaxClockSteps == 2
\* on_tick is followed down to MaxOvertime quanta below zero.
MaxOvertime == 1
\* Number of sessions (Thok::new calls) in one run of the program.
MaxSessions == 2

ClockStepMs == 600
\* The longest prompt of the sessions built fully typed, as the tests do.
MaxPromptLen == 40
\* The longest prompt, in words, and the longest elapsed time, in seconds, of a
\* session built as test_wpm builds it.
MaxWords == 11
\* The keystrokes and the seconds of a session built with spread timestamps.
MaxKeystrokes == 4
MaxBuckets == 3
MaxElapsedSecs == 11

\* The characters a key press can deliver.  "é" takes two bytes in UTF-8.
Chars == {"a", " ", "é"}

\* String::len() is a count of bytes.
Utf8Len(c) == IF c = "é" THEN 2 ELSE 1

\* The prompts handed to Thok::new: empty, ASCII with a space, multi-byte.
Prompts == {<< >>, <<"a", " ", "a">>, <<"é", "a">>}

\* The durations handed to Thok::new: untimed, or two tick quanta.
Durations == {{}, {2}}

\* TICK_RATE_MS as f64 / 1000_f64: one quantum of seconds_remaining.
TickQuantum == 1

----------------------------------------------------------------------------
\* Helpers over sequences.

RECURSIVE SumBytes(_)
SumBytes(s) == IF s = << >> THEN 0 ELSE Utf8Len(Head(s)) + SumBytes(Tail(s))

\* String::len(): the length of the string in bytes.
StrLen(s) == SumBytes(s)

\* Vec::insert(i, x), defined for i <= len.
InsertAt(s, i, x) == SubSeq(s, 1, i) \o <<x>> \o SubSeq(s, i + 1, Len(s))

\* Vec::remove(i) (0-based i), defined for i < len.
RemoveAt(s, i) == SubSeq(s, 1, i) \o SubSeq(s, i + 2, Len(s))

\* Vec::last()
LastOf(s) == IF s = << >> THEN {} ELSE {s[Len(s)]}

----------------------------------------------------------------------------
\* The pure parts of impl Thok.

\* prompt.chars().nth(idx): Option<char>
NthChar(p, idx) == IF idx < Len(p) THEN {p[idx + 1]} ELSE {}

\* get_expected_char: .unwrap() of the above; the caller checks for None.
get_expected_char(p, idx) == CHOOSE c \in NthChar(p, idx) : TRUE

\* A faulty variant: the cursor stays where it is.
increment_cursor_stuck(in, cp) == cp

\* A faulty variant: the cursor stops one short of the end.
increment_cursor_short(in, cp) == IF cp + 1 < Len(in) THEN cp + 1 ELSE cp

increment_cursor(in, cp) == IF cp < Len(in) THEN cp + 1 ELSE cp

\* A faulty variant: the cursor is left where it was.
decrement_cursor_stuck(cp) == cp

decrement_cursor(cp) == IF cp > 0 THEN cp - 1 ELSE cp

\* A faulty variant: start() runs on every keystroke.
start_always(idx, st, t) == {t}

\* A faulty variant: start() runs whenever the keystroke sequence is empty.
start_if_empty(idx, st, t) == IF idx = 0 THEN {t} ELSE st

\* if idx == 0 && self.started_at.is_none() { self.start() }, at time t.
start_if_first(idx, st, t) == IF idx = 0 /\ st = {} THEN {t} ELSE st

\* A faulty variant: every keystroke is judged Correct.
outcome_always_correct(c, p, idx) == "Correct"

\* A faulty variant: the keystroke is judged against the prompt character one
\* place before its own.
outcome_of_previous(c, p, idx) ==
    IF c = get_expected_char(p, IF idx > 0 THEN idx - 1 ELSE 0)
    THEN "Correct" ELSE "Incorrect"

\* The outcome write gives to c typed as keystroke number idx.
outcome_of(c, p, idx) ==
    IF c = get_expected_char(p, idx) THEN "Correct" ELSE "Incorrect"

fatal_error(dm, in) ==
    dm /\ \E i \in 1..Len(in) : in[i].outcome = "Incorrect"

has_finished_of(p, dm, in, sr) ==
    LET finished_prompt == Len(in) = StrLen(p)
        out_of_time == sr # {} /\ \A v \in sr : v <= 0
        is_fatal_error == fatal_error(dm, in)
    IN  finished_prompt \/ out_of_time \/ is_fatal_error

has_finished == has_finished_of(prompt, death_mode, input, seconds_remaining)

has_started == started_at # {}

----------------------------------------------------------------------------
\* The state an operation is called in, kept for the properties.
Snapshot ==
    [input |-> input, cursor_pos |-> cursor_pos, started_at |-> started_at,
     seconds_remaining |-> seconds_remaining, results |-> results,
     now |-> now, log_exists |-> log_exists, log |-> log]

Called(name, arg) ==
    /\ op' = <<name, arg>>
    /\ pre' = Snapshot

Live == ~panicked /\ phase = "typing"

----------------------------------------------------------------------------
\* Thok::new, as the program starts.
Init ==
    /\ prompt \in Prompts
    /\ death_mode \in BOOLEAN
    /\ number_of_secs \in Durations
    /\ input = << >>
    /\ cursor_pos = 0
    /\ started_at = {}
    /\ seconds_remaining = number_of_secs
    /\ wpm = <<"num", 0>>
    /\ accuracy = <<"num", 0>>
    /\ std_dev = <<0, 1>>
    /\ wpm_coords = << >>
    /\ now = 0
    /\ panicked = FALSE
    /\ phase = "typing"
    /\ sessions = 1
    /\ dir_exists = FALSE
    /\ log_exists = FALSE
    /\ log = << >>
    /\ saves = 0
    /\ persisted = 0
    /\ op = <<"new", "">>
    /\ pre = [input |-> << >>, cursor_pos |-> 0, started_at |-> {},
              seconds_remaining |-> number_of_secs,
              results |-> <<wpm, accuracy, std_dev, wpm_coords>>,
              now |-> 0, log_exists |-> FALSE, log |-> << >>]

\* Time passes.
Advance ==
    /\ ~panicked
    /\ now < MaxClockSteps * ClockStepMs
    /\ now' = now + ClockStepMs
    /\ UNCHANGED <<config, input, cursor_pos, started_at, seconds_remaining,
                   results, panicked, phase, sessions, files, op, pre>>

\* A faulty variant: a tick does not count down.
on_tick_frozen ==
    /\ Live
    /\ \A v \in seconds_remaining : v > -MaxOvertime
    /\ seconds_remaining' = seconds_remaining
    /\ Called("on_tick", "")
    /\ UNCHANGED <<config, input, cursor_pos, started_at, results, now,
                   panicked, phase, sessions, files>>

\* A faulty variant: the timer stops at zero.
on_tick_clamped ==
    /\ Live
    /\ \A v \in seconds_remaining : v > -MaxOvertime
    /\ seconds_remaining' =
          {IF v < TickQuantum THEN 0 ELSE v - TickQuantum :
              v \in seconds_remaining}
    /\ Called("on_tick", "")
    /\ UNCHANGED <<config, input, cursor_pos, started_at, results, now,
                   panicked, phase, sessions, files>>

\* A faulty variant: an expired timer starts again from the configured duration.
on_tick_restart ==
    /\ Live
    /\ \A v \in seconds_remaining : v > -MaxOvertime
    /\ seconds_remaining' =
          {IF v <= 0 THEN CHOOSE n \in number_of_secs : TRUE
                     ELSE v - TickQuantum : v \in seconds_remaining}
    /\ Called("on_tick", "")
    /\ UNCHANGED <<config, input, cursor_pos, started_at, results, now,
                   panicked, phase, sessions, files>>

on_tick ==
    /\ Live
    /\ \A v \in seconds_remaining : v > -MaxOvertime
    /\ seconds_remaining' = {v - TickQuantum : v \in seconds_remaining}
    /\ Called("on_tick", "")
    /\ UNCHANGED <<config, input, cursor_pos, started_at, results, now,
                   panicked, phase, sessions, files>>

\* start() and write(c)
write(c) ==
    /\ Live
    /\ LET idx == Len(input)
       IN  /\ started_at' = start_if_first(idx, started_at, now)
           /\ IF NthChar(prompt, idx) = {} \/ cursor_pos > Len(input)
              THEN /\ panicked' = TRUE
                   /\ UNCHANGED <<input, cursor_pos>>
              ELSE LET rec == [char |-> c,
                               outcome |-> outcome_of(c, prompt, idx),
                               timestamp |-> now]
                       in2 == InsertAt(input, cursor_pos, rec)
                   IN  /\ input' = in2
                       /\ cursor_pos' = increment_cursor(in2, cursor_pos)
                       /\ UNCHANGED panicked
    /\ Called("write", c)
    /\ UNCHANGED <<config, seconds_remaining, results, now, phase, sessions,
                   files>>

\* A faulty variant: the keystroke at the cursor is removed, not the one before it.
backspace_off_by_one ==
    /\ Live
    /\ IF cursor_pos > 0
       THEN IF cursor_pos < Len(input)
            THEN /\ input' = RemoveAt(input, cursor_pos)
                 /\ cursor_pos' = decrement_cursor(cursor_pos)
                 /\ UNCHANGED panicked
            ELSE /\ panicked' = TRUE
                 /\ UNCHANGED <<input, cursor_pos>>
       ELSE UNCHANGED <<input, cursor_pos, panicked>>
    /\ Called("backspace", "")
    /\ UNCHANGED <<config, started_at, seconds_remaining, results, now, phase,
                   sessions, files>>

backspace ==
    /\ Live
    /\ IF cursor_pos > 0
       THEN IF cursor_pos - 1 < Len(input)
            THEN /\ input' = RemoveAt(input, cursor_pos - 1)
                 /\ cursor_pos' = decrement_cursor(cursor_pos)
                 /\ UNCHANGED panicked
            ELSE /\ panicked' = TRUE
                 /\ UNCHANGED <<input, cursor_pos>>
       ELSE UNCHANGED <<input, cursor_pos, panicked>>
    /\ Called("backspace", "")
    /\ UNCHANGED <<config, started_at, seconds_remaining, results, now, phase,
                   sessions, files>>

\* One input.remove(self.cursor_pos - 1); self.decrement_cursor() of
\* word_backspace, on the pair [input, cursor_pos, panicked].
RemoveBeforeCursor(s) ==
    IF s.cursor_pos = 0 \/ s.cursor_pos - 1 >= Len(s.input)
    THEN [s EXCEPT !.panicked = TRUE]
    ELSE [input |-> RemoveAt(s.input, s.cursor_pos - 1),
          cursor_pos |-> decrement_cursor(s.cursor_pos),
          panicked |-> FALSE]

\* The while loop of word_backspace.
RECURSIVE WordLoop(_)
WordLoop(s) ==
    IF ~s.panicked /\ \E l \in LastOf(s.input) : l.char # " "
    THEN WordLoop(RemoveBeforeCursor(s))
    ELSE s

\* A faulty variant: a trailing space is not removed first.
word_backspace_no_space(in, cp) ==
    WordLoop([input |-> in, cursor_pos |-> cp, panicked |-> FALSE])

word_backspace_of(in, cp) ==
    LET s0 == [input |-> in, cursor_pos |-> cp, panicked |-> FALSE]
        s1 == IF \E l \in LastOf(in) : l.char = " "
              THEN RemoveBeforeCursor(s0) ELSE s0
    IN  WordLoop(s1)

word_backspace ==
    /\ Live
    /\ LET r == word_backspace_of(input, cursor_pos)
       IN  /\ input' = r.input
           /\ cursor_pos' = r.cursor_pos
           /\ panicked' = r.panicked
    /\ Called("word_backspace", "")
    /\ UNCHANGED <<config, started_at, seconds_remaining, results, now, phase,
                   sessions, files>>

----------------------------------------------------------------------------
\* calc_results: the statistics.

RECURSIVE SelectCorrect(_)
\* input.into_iter().filter(|i| i.outcome == Outcome::Correct)
SelectCorrect(in) ==
    IF in = << >> THEN << >>
    ELSE IF Head(in).outcome = "Correct"
         THEN <<Head(in)>> \o SelectCorrect(Tail(in))
         ELSE SelectCorrect(Tail(in))

\* f64::ceil of a / b, for a >= 0 and b > 0.
CeilDiv(a, b) == (a + b - 1) \div b

\* The key of keystroke i in the histogram: num_secs after the if/else chain.
\* num_secs is (timestamp - started_at) in seconds; elapsed_secs holds
\* as_millis(), the elapsed time in milliseconds, and whole_second_limit its
\* floor.  Every outcome is a whole number.
BucketKey(i, st, t) ==
    LET offset_ms == i.timestamp - st
        elapsed_secs == t - st
        whole_second_limit == elapsed_secs
    IN  IF offset_ms = 0 THEN 1
        ELSE IF CeilDiv(offset_ms, 1000) <= whole_second_limit
             THEN IF offset_ms < 1000 THEN 1 ELSE CeilDiv(offset_ms, 1000)
             ELSE elapsed_secs

\* The HashMap of the fold: key -> number of correct keystrokes with that key.
\* (num_secs.to_string() and k.parse::<f64>() are inverse on these values.)
BucketCount(cc, st, t, k) ==
    Cardinality({j \in 1..Len(cc) : BucketKey(cc[j], st, t) = k})

RECURSIVE SortedKeys(_)
SortedKeys(K) ==
    IF K = {} THEN << >>
    ELSE LET m == CHOOSE x \in K : \A y \in K : x <= y
         IN  <<m>> \o SortedKeys(K \ {m})

\* correct_chars_per_sec: the (key, count) pairs, sorted.
correct_chars_per_sec(in, st, t) ==
    LET cc == SelectCorrect(in)
        ks == SortedKeys({BucketKey(cc[j], st, t) : j \in 1..Len(cc)})
    IN  [j \in 1..Len(ks) |-> <<ks[j], BucketCount(cc, st, t, ks[j])>>]

\* A faulty variant: the last pair is kept.
whole_sec_intervals_all(b) == [j \in 1..Len(b) |-> b[j][2]]

\* correct_chars_at_whole_sec_intervals: the counts of all pairs but the last.
whole_sec_intervals(b) ==
    [j \in 1..(IF Len(b) = 0 THEN 0 ELSE Len(b) - 1) |-> b[j][2]]

RECURSIVE SumSeq(_)
SumSeq(s) == IF s = << >> THEN 0 ELSE Head(s) + SumSeq(Tail(s))

\* util::std_dev of a non-empty slice: the population standard deviation,
\* kept as its square, the fraction <<n * sum(x^2) - sum(x)^2, n^2>>.
util_std_dev(xs) ==
    LET n == Len(xs)
        sq == [j \in 1..n |-> xs[j] * xs[j]]
    IN  <<n * SumSeq(sq) - SumSeq(xs) * SumSeq(xs), n * n>>

calc_std_dev(b) ==
    IF whole_sec_intervals(b) # << >>
    THEN util_std_dev(whole_sec_intervals(b))
    ELSE <<0, 1>>

\* The pairs pushed to wpm_coords: (x.0, ((60 / x.0) * running total) / 5),
\* the second component kept as the fraction <<12 * running total, x.0>>.
new_wpm_coords(b) ==
    [j \in 1..Len(b) |->
        <<b[j][1],
          <<12 * SumSeq([k \in 1..j |-> b[k][2]]), b[j][1]>>>>]

RECURSIVE SplitWords(_, _)
\* input.split(|i| i.char == ' '): cur is the word being collected.
SplitWords(in, cur) ==
    IF in = << >> THEN <<cur>>
    ELSE IF Head(in).char = " "
         THEN <<cur>> \o SplitWords(Tail(in), << >>)
         ELSE SplitWords(Tail(in), Append(cur, Head(in)))

correct_words(in) ==
    LET ws == SplitWords(in, << >>)
    IN  Cardinality({j \in 1..Len(ws) :
            ~\E k \in 1..Len(ws[j]) : ws[j][k].outcome = "Incorrect"})

\* f64 arithmetic.  A positive f64 is m * 2^x with a 53-bit m; m is kept as
\* its leading part and four 13-bit limbs, most significant first.

RECURSIVE Pow2(_)
Pow2(k) == IF k = 0 THEN 1 ELSE 2 * Pow2(k - 1)

\* One 13-bit limb's worth of values.
LimbBase == Pow2(13)

RECURSIVE AddCarry(_, _)
\* limbs (the leading part first) plus carry at the least significant limb.
AddCarry(limbs, carry) ==
    IF Len(limbs) = 1 THEN <<limbs[1] + carry>>
    ELSE LET l == limbs[Len(limbs)] + carry
         IN  Append(AddCarry(SubSeq(limbs, 1, Len(limbs) - 1),
                             l \div LimbBase),
                    l % LimbBase)

RECURSIVE DivLimbs(_, _, _)
\* k limbs of the quotient r / n for r < n, and the remainder left.
DivLimbs(r, n, k) ==
    IF k = 0 THEN [limbs |-> << >>, rem |-> r]
    ELSE LET rest == DivLimbs((r * LimbBase) % n, n, k - 1)
         IN  [limbs |-> <<(r * LimbBase) \div n>> \o rest.limbs,
              rem |-> rest.rem]

\* The least x >= 1 with c * 2^x >= n, for 0 < c < n.
RECURSIVE DivExp(_, _, _)
DivExp(c, n, x) == IF c * Pow2(x) >= n THEN x ELSE DivExp(c, n, x + 1)

\* c as f64 / n as f64 for 0 < c < n: the quotient rounded to 53 bits, ties
\* to even.  The value is m * 2^(-x - 52), m given by its limbs.
F64Div(c, n) ==
    LET x == DivExp(c, n, 1)
        q == DivLimbs(c * Pow2(x) - n, n, 4)
        up == \/ 2 * q.rem > n
              \/ (2 * q.rem = n /\ q.limbs[4] % 2 = 1)
    IN  [x |-> x, m |-> AddCarry(<<1>> \o q.limbs, IF up THEN 1 ELSE 0)]

RECURSIVE MulCarry(_, _, _)
\* limbs times the small number k, plus carry: exact, every limb but the
\* leading one below LimbBase.
MulCarry(limbs, k, carry) ==
    IF Len(limbs) = 1 THEN <<limbs[1] * k + carry>>
    ELSE LET l == limbs[Len(limbs)] * k + carry
         IN  Append(MulCarry(SubSeq(limbs, 1, Len(limbs) - 1), k,
                             l \div LimbBase),
                    l % LimbBase)

\* The exact product p of a 53-bit m and 100 (leading part 100..200, so 59
\* or 60 bits) rounded to 53 bits, ties to even: the low 6 or 7 bits go.
RoundTo53(p) ==
    LET d == IF p[1] < 128 THEN 6 ELSE 7
        last == p[Len(p)]
        rem == last % Pow2(d)
        up == \/ 2 * rem > Pow2(d)
              \/ (2 * rem = Pow2(d) /\ (last \div Pow2(d)) % 2 = 1)
        cut == [p EXCEPT ![Len(p)] = last - rem]
    IN  IF up THEN AddCarry(cut, Pow2(d)) ELSE cut

\* ((c as f64 / n as f64) * 100.0).round() for 0 < c < n.  The product is
\* y = p * 2^(-x - 52); below its leading part p holds 52 bits, so round(),
\* which rounds half away from zero, is decided by the leading part.
F64PercentRound(c, n) ==
    LET q == F64Div(c, n)
        p == RoundTo53(MulCarry(q.m, 100, 0))
    IN  (p[1] + Pow2(q.x - 1)) \div Pow2(q.x)

\* ((correct / total) * 100).round(), an f64: 0 / 0 is NaN.
calc_accuracy(in) ==
    LET c == Len(SelectCorrect(in))
        n == Len(in)
    IN  IF n = 0 THEN <<"NaN", 0>>
        ELSE IF c = 0 THEN <<"num", 0>>
        ELSE IF c = n THEN <<"num", 100>>
        ELSE <<"num", F64PercentRound(c, n)>>

\* A positive f64 as a record: its value is m * 2^e, with m a 53-bit number
\* kept wide, <<hi, lo>> standing for hi * 2^27 + lo.

WideBase == Pow2(27)

\* The element of a one-element set. Only({F(v) : v \in {x}}) is F applied
\* to x, with x computed once and before F is.
Only(S) == CHOOSE r \in S : TRUE

Wide(n) == <<n \div WideBase, n % WideBase>>

WideDbl(a) == <<2 * a[1] + (2 * a[2]) \div WideBase, (2 * a[2]) % WideBase>>

WideLeq(a, b) == a[1] < b[1] \/ (a[1] = b[1] /\ a[2] <= b[2])

WideAdd(a, b) ==
    <<a[1] + b[1] + (a[2] + b[2]) \div WideBase, (a[2] + b[2]) % WideBase>>

\* a - b for b <= a.
WideSub(a, b) ==
    IF a[2] >= b[2] THEN <<a[1] - b[1], a[2] - b[2]>>
    ELSE <<a[1] - b[1] - 1, a[2] + WideBase - b[2]>>

\* a shifted right by s bits, 1 <= s <= 57: g is the last bit shifted out, st
\* tells whether any bit shifted out before it was set.
ShrSticky(a, s) ==
    IF s <= 27
    THEN [m |-> <<a[1] \div Pow2(s),
                  (a[1] % Pow2(s)) * Pow2(27 - s) + a[2] \div Pow2(s)>>,
          g |-> (a[2] \div Pow2(s - 1)) % 2,
          st |-> a[2] % Pow2(s - 1) # 0]
    ELSE [m |-> <<0, a[1] \div Pow2(s - 27)>>,
          g |-> (a[1] \div Pow2(s - 28)) % 2,
          st |-> a[1] % Pow2(s - 28) # 0 \/ a[2] # 0]

\* The least b with n < 2^b.
RECURSIVE BitLen(_)
BitLen(n) == IF n = 0 THEN 0 ELSE 1 + BitLen(n \div 2)

\* m * 2^e with m of 53 or, after a carry, 54 bits (then exactly 2^53).
F64Norm(m, e) ==
    IF m = <<Pow2(26), 0>> THEN [m |-> <<Pow2(25), 0>>, e |-> e + 1]
    ELSE [m |-> m, e |-> e]

\* The least b with a < 2^b, for a wide a.
WideBitLen(a) == IF a[1] > 0 THEN 27 + BitLen(a[1]) ELSE BitLen(a[2])

\* a * k for a small k.
WideMul(a, k) == <<k * a[1] + (k * a[2]) \div WideBase, (k * a[2]) % WideBase>>

\* a shifted left by s bits, the result below 2^54.
WideShl(a, s) ==
    IF s < 27
    THEN <<a[1] * Pow2(s) + a[2] \div Pow2(27 - s),
           (a[2] % Pow2(27 - s)) * Pow2(s)>>
    ELSE <<a[2] * Pow2(s - 27), 0>>

\* Four more bits of the quotient r / b after prev, a record of the quotient
\* bits m so far and the remainder r left after them; b has 53 bits.  The
\* digit is estimated from the leading parts, from below and at most one short.
RatioDigit(prev, b) ==
    LET r16 == WideMul(prev.r, 16)
        est == r16[1] \div (b[1] + 1)
        left == WideSub(r16, WideMul(b, est))
        short == WideLeq(b, left)
    IN  [m |-> <<16 * prev.m[1] + (16 * prev.m[2]) \div WideBase,
                 ((16 * prev.m[2]) % WideBase) + est
                 + (IF short THEN 1 ELSE 0)>>,
         r |-> IF short THEN WideSub(left, b) ELSE left]

RECURSIVE RatioBits(_, _, _)
\* The first 4 * k bits of the quotient r / b, for r < b, as the wide number
\* m, and the remainder r left after them.
RatioBits(r, b, k) ==
    IF k = 0 THEN [m |-> Wide(0), r |-> r]
    ELSE Only({RatioDigit(prev, b) : prev \in {RatioBits(r, b, k - 1)}})

\* The quotient q of a / b, for b <= a < 2b, as RatioBits gives it, rounded
\* to 53 bits, ties to even.
RatioRound(q, b) ==
    LET m == WideAdd(<<Pow2(25), 0>>, q.m)
        rest == WideDbl(q.r)
        up == \/ ~WideLeq(rest, b)
              \/ (rest = b /\ m[2] % 2 = 1)
    IN  IF up THEN WideAdd(m, Wide(1)) ELSE m

\* a and b shifted to 53 bits each, and a once more if it is then below b,
\* so that b <= a < 2b; (a / b) * 2^e is the quotient asked for.
RatioScale(a, b) ==
    LET a53 == WideShl(a, 53 - WideBitLen(a))
        b53 == WideShl(b, 53 - WideBitLen(b))
        e == WideBitLen(a) - WideBitLen(b)
    IN  IF WideLeq(b53, a53) THEN [a |-> a53, b |-> b53, e |-> e]
        ELSE [a |-> WideDbl(a53), b |-> b53, e |-> e - 1]

\* a / b for wide a, b > 0, rounded to 53 bits, ties to even.
F64Ratio(a, b) ==
    Only({Only({Only({F64Norm(m, s.e - 52)
                      : m \in {RatioRound(q, s.b)}})
                : q \in {RatioBits(WideSub(s.a, s.b), s.b, 13)}})
          : s \in {RatioScale(a, b)}})

\* n as f64, for 0 < n < 2^26: exact, n shifted up to 53 bits.
F64Int(n) ==
    [m |-> <<n * Pow2(26 - BitLen(n)), 0>>, e |-> BitLen(n) - 53]

\* x / y on f64.
F64Quot(x, y) ==
    Only({[m |-> r.m, e |-> r.e + x.e - y.e] : r \in {F64Ratio(x.m, y.m)}})

\* n as f64 + x for a whole n, 1 <= n < 2^26, and an f64 x of 2^-27 or more
\* and less than 1: the sum lies between 2^(b-1) and 2^b for b the bit length
\* of n, so x is shifted to the unit 2^(b-53) and the sum rounded, ties to
\* even.
F64AddInt(n, x) ==
    Only({LET b == BitLen(n)
              sum == WideAdd(<<n * Pow2(26 - b), 0>>, sh.m)
              up == sh.g = 1 /\ (sh.st \/ sum[2] % 2 = 1)
          IN  F64Norm(IF up THEN WideAdd(sum, Wide(1)) ELSE sum, b - 53)
          : sh \in {ShrSticky(x.m, BitLen(n) - 53 - x.e)}})

\* x.ceil() for an f64 x with 2^-5 <= x < 2^31, as a number.
F64Ceil(x) ==
    Only({sh.m[1] * WideBase + sh.m[2]
          + (IF sh.g = 1 \/ sh.st THEN 1 ELSE 0)
          : sh \in {ShrSticky(x.m, 0 - x.e)}})

\* Duration::as_secs_f64 of ms > 0 milliseconds:
\* (secs as f64) + (nanos as f64) / (NANOS_PER_SEC as f64).
as_secs_f64(ms) ==
    LET secs == ms \div 1000
        nanos == (ms % 1000) * 1000000
    IN  IF nanos = 0 THEN F64Int(secs)
        ELSE IF secs = 0 THEN F64Ratio(Wide(nanos), Wide(1000000000))
        ELSE Only({F64AddInt(secs, x)
                   : x \in {F64Ratio(Wide(nanos), Wide(1000000000))}})

\* (correct_words as f64 / (elapsed.as_secs_f64() / 60.0)).ceil(): x / 0 is
\* infinite for x > 0 and NaN for x = 0.
calc_wpm(in, st, t) ==
    LET w == correct_words(in)
        ms == t - st
    IN  IF ms = 0
        THEN IF w = 0 THEN <<"NaN", 0>> ELSE <<"inf", 0>>
        ELSE IF w = 0 THEN <<"num", 0>>
        ELSE Only({Only({Only({<<"num", F64Ceil(q)>>
                               : q \in {F64Quot(F64Int(w), mins)}})
                         : mins \in {F64Quot(elapsed, F64Int(60))}})
                   : elapsed \in {as_secs_f64(ms)}})

----------------------------------------------------------------------------
\* save_results: the results log.

\* "date,num_words,num_secs,elapsed_secs,wpm,accuracy,std_dev", by column.
Header ==
    <<"date", "num_words", "num_secs", "elapsed_secs", "wpm", "accuracy",
      "std_dev">>

\* "{},{},{},{:.2},{},{},{:.2}", by column; no formatted value holds a comma.
Row == <<"{}", "{}", "{}", "{:.2}", "{}", "{}", "{:.2}">>

\* What is left of a row whose write failed part of the way.
TornRow == <<"{}">>

\* How one call of save_results can end: the step that fails, if any.
SaveOutcomes ==
    {"ok", "no_project_dirs", "create_dir_failed", "open_failed",
     "header_failed", "row_failed", "row_torn"}

\* A faulty variant: the header is written on every call.
save_results_always_header(f, o) ==
    IF o \in {"no_project_dirs", "create_dir_failed"}
    THEN [files |-> f, ok |-> o = "no_project_dirs", wrote |-> FALSE]
    ELSE IF o \in {"open_failed", "header_failed", "row_failed", "row_torn"}
    THEN [files |-> [f EXCEPT !.dir_exists = TRUE], ok |-> FALSE,
          wrote |-> FALSE]
    ELSE [files |-> [dir_exists |-> TRUE, log_exists |-> TRUE,
                     log |-> f.log \o <<Header, Row>>],
          ok |-> TRUE, wrote |-> TRUE]

\* save_results on the files f = [dir_exists, log_exists, log], ending as o:
\* the files it leaves and whether it returns Ok.
save_results(f, o) ==
    IF o = "no_project_dirs" THEN [files |-> f, ok |-> TRUE, wrote |-> FALSE]
    ELSE IF o = "create_dir_failed"
    THEN [files |-> f, ok |-> FALSE, wrote |-> FALSE]
    ELSE LET f1 == [f EXCEPT !.dir_exists = TRUE]
             needs_header == ~f.log_exists
         IN  IF o = "open_failed"
             THEN [files |-> f1, ok |-> FALSE, wrote |-> FALSE]
             ELSE LET f2 == [f1 EXCEPT !.log_exists = TRUE]
                  IN  IF needs_header /\ o = "header_failed"
                      THEN [files |-> f2, ok |-> FALSE, wrote |-> FALSE]
                      ELSE LET f3 == IF needs_header
                                     THEN [f2 EXCEPT !.log = Append(@, Header)]
                                     ELSE f2
                           IN  IF o = "row_failed"
                               THEN [files |-> f3, ok |-> FALSE,
                                     wrote |-> FALSE]
                               ELSE IF o = "row_torn"
                               THEN [files |->
                                       [f3 EXCEPT !.log = Append(@, TornRow)],
                                     ok |-> FALSE, wrote |-> FALSE]
                               ELSE [files |->
                                       [f3 EXCEPT !.log = Append(@, Row)],
                                     ok |-> TRUE, wrote |-> TRUE]

\* A faulty variant: self.save_results().unwrap()
save_result_unwrapped(r) == ~r.ok

\* let _ = self.save_results(): the io::Result is dropped.
save_result_panics(r) == FALSE

\* calc_results, called by the caller once it observes has_finished.
calc_results ==
    /\ Live
    /\ has_finished
    /\ IF started_at = {}
       THEN /\ panicked' = TRUE
            /\ UNCHANGED <<results, phase, files>>
       ELSE LET st == CHOOSE v \in started_at : TRUE
                b == correct_chars_per_sec(input, st, now)
            IN  /\ std_dev' = calc_std_dev(b)
                /\ wpm_coords' = wpm_coords \o new_wpm_coords(b)
                /\ wpm' = calc_wpm(input, st, now)
                /\ accuracy' = calc_accuracy(input)
                /\ \E o \in SaveOutcomes :
                     LET r == save_results([dir_exists |-> dir_exists,
                                            log_exists |-> log_exists,
                                            log |-> log], o)
                     IN  /\ o = "header_failed" => ~log_exists
                         /\ dir_exists' = r.files.dir_exists
                         /\ log_exists' = r.files.log_exists
                         /\ log' = r.files.log
                         /\ saves' = saves + 1
                         /\ persisted' = IF r.wrote THEN persisted + 1
                                                     ELSE persisted
                         /\ phase' = "results"
                         /\ panicked' = save_result_panics(r)
    /\ Called("calc_results", "")
    /\ UNCHANGED <<config, input, cursor_pos, started_at, seconds_remaining,
                   now, sessions>>

\* Thok::new for another attempt at the same prompt.
new_session ==
    /\ ~panicked
    /\ phase = "results"
    /\ sessions < MaxSessions
    /\ sessions' = sessions + 1
    /\ input' = << >>
    /\ cursor_pos' = 0
    /\ started_at' = {}
    /\ seconds_remaining' = number_of_secs
    /\ wpm' = <<"num", 0>>
    /\ accuracy' = <<"num", 0>>
    /\ std_dev' = <<0, 1>>
    /\ wpm_coords' = << >>
    /\ phase' = "typing"
    /\ Called("new", "")
    /\ UNCHANGED <<config, now, panicked, files>>

Next ==
    \/ Advance
    \/ on_tick
    \/ \E c \in Chars : write(c)
    \/ backspace
    \/ word_backspace
    \/ calc_results

\* One session, from Thok::new to its results.
Spec == Init /\ [][Next]_vars

\* A timed session whose ticks keep coming: on_tick is called again and again
\* for as long as the session takes ticks.
InitTimed ==
    /\ Init
    /\ number_of_secs # {}

\* The calls made while the session is being typed.
NextTyping ==
    \/ Advance
    \/ on_tick
    \/ \E c \in Chars : write(c)
    \/ backspace
    \/ word_backspace

SpecFair == InitTimed /\ [][NextTyping]_vars /\ WF_vars(on_tick)

\* Sessions one after another on the same log: an untimed death-mode session
\* on the ASCII prompt, retried after its results.
InitLog ==
    /\ Init
    /\ prompt = <<"a", " ", "a">>
    /\ number_of_secs = {}
    /\ death_mode

NextLog ==
    \/ Next
    \/ new_session

SpecLog == InitLog /\ [][NextLog]_vars

\* build_input!(typed, goal): typed judged char by char against goal, every
\* keystroke at time t.
BuildInputAgainst(typed, goal, t) ==
    [i \in 1..Len(typed) |->
        [char |-> typed[i],
         outcome |-> IF typed[i] = goal[i] THEN "Correct" ELSE "Incorrect",
         timestamp |-> t]]

\* A session built fully typed one second after it started, as test_accuracy
\* builds it: a prompt of n chars "a", typed with its first c chars right.
InitTest ==
    /\ \E n \in 1..MaxPromptLen : \E c \in 0..n :
         /\ prompt = [i \in 1..n |-> "a"]
         /\ input = BuildInputAgainst(
                        [i \in 1..n |-> IF i <= c THEN "a" ELSE "é"],
                        prompt, 1000)
         /\ cursor_pos = n
    /\ started_at = {0}
    /\ now = 1000
    /\ death_mode = FALSE
    /\ number_of_secs = {}
    /\ seconds_remaining = {}
    /\ wpm = <<"num", 0>>
    /\ accuracy = <<"num", 0>>
    /\ std_dev = <<0, 1>>
    /\ wpm_coords = << >>
    /\ panicked = FALSE
    /\ phase = "typing"
    /\ sessions = 1
    /\ dir_exists = FALSE
    /\ log_exists = FALSE
    /\ log = << >>
    /\ saves = 0
    /\ persisted = 0
    /\ op = <<"new", "">>
    /\ pre = [input |-> input, cursor_pos |-> cursor_pos,
              started_at |-> started_at, seconds_remaining |-> {},
              results |-> <<wpm, accuracy, std_dev, wpm_coords>>,
              now |-> now, log_exists |-> FALSE, log |-> << >>]

NextTest ==
    \/ Advance
    \/ calc_results

SpecTest == InitTest /\ [][NextTest]_vars

\* A session built fully and correctly typed secs seconds after it started, as
\* test_wpm builds it (started_at = now - secs): a prompt of n words "a".
InitWpm ==
    /\ \E n \in 1..MaxWords : \E secs \in 1..MaxElapsedSecs :
         /\ prompt = [i \in 1..(2 * n - 1) |->
                          IF i % 2 = 1 THEN "a" ELSE " "]
         /\ started_at = {0 - 1000 * secs}
         /\ input = BuildInputAgainst(prompt, prompt, 0 - 1000 * secs)
         /\ cursor_pos = 2 * n - 1
    /\ now = 0
    /\ death_mode = FALSE
    /\ number_of_secs = {}
    /\ seconds_remaining = {}
    /\ wpm = <<"num", 0>>
    /\ accuracy = <<"num", 0>>
    /\ std_dev = <<0, 1>>
    /\ wpm_coords = << >>
    /\ panicked = FALSE
    /\ phase = "typing"
    /\ sessions = 1
    /\ dir_exists = FALSE
    /\ log_exists = FALSE
    /\ log = << >>
    /\ saves = 0
    /\ persisted = 0
    /\ op = <<"new", "">>
    /\ pre = [input |-> input, cursor_pos |-> cursor_pos,
              started_at |-> started_at, seconds_remaining |-> {},
              results |-> <<wpm, accuracy, std_dev, wpm_coords>>,
              now |-> now, log_exists |-> FALSE, log |-> << >>]

SpecWpm == InitWpm /\ [][NextTest]_vars

\* A session built fully typed MaxBuckets seconds after it started, as the
\* tests build theirs, but with each keystroke at a whole second of its own
\* and right or wrong: a prompt of n chars "a".
InitBuckets ==
    /\ \E n \in 1..MaxKeystrokes :
       \E secs \in [1..n -> 1..MaxBuckets] :
       \E right \in [1..n -> BOOLEAN] :
         /\ \A i \in 1..(n - 1) : secs[i] <= secs[i + 1]
         /\ prompt = [i \in 1..n |-> "a"]
         /\ input = [i \in 1..n |->
                [char |-> IF right[i] THEN "a" ELSE "é",
                 outcome |-> IF right[i] THEN "Correct" ELSE "Incorrect",
                 timestamp |-> 1000 * (secs[i] - MaxBuckets)]]
         /\ cursor_pos = n
    /\ started_at = {0 - 1000 * MaxBuckets}
    /\ now = 0
    /\ death_mode = FALSE
    /\ number_of_secs = {}
    /\ seconds_remaining = {}
    /\ wpm = <<"num", 0>>
    /\ accuracy = <<"num", 0>>
    /\ std_dev = <<0, 1>>
    /\ wpm_coords = << >>
    /\ panicked = FALSE
    /\ phase = "typing"
    /\ sessions = 1
    /\ dir_exists = FALSE
    /\ log_exists = FALSE
    /\ log = << >>
    /\ saves = 0
    /\ persisted = 0
    /\ op = <<"new", "">>
    /\ pre = [input |-> input, cursor_pos |-> cursor_pos,
              started_at |-> started_at, seconds_remaining |-> {},
              results |-> <<wpm, accuracy, std_dev, wpm_coords>>,
              now |-> now, log_exists |-> FALSE, log |-> << >>]

SpecBuckets == InitBuckets /\ [][NextTest]_vars

----------------------------------------------------------------------------
\* Properties.  op[1] names the last operation called, op[2] its argument,
\* and pre is the state it was called in.

EditOps == {"write", "backspace", "word_backspace", "on_tick"}

\* The session fields other than input and cursor_pos are as before the call.
RestUnchanged ==
    /\ started_at = pre.started_at
    /\ seconds_remaining = pre.seconds_remaining
    /\ results = pre.results

PreFinished ==
    has_finished_of(prompt, death_mode, pre.input, pre.seconds_remaining)

PreOutOfTime ==
    pre.seconds_remaining # {} /\ \A v \in pre.seconds_remaining : v <= 0

OneTwoThree ==
    <<"o", "n", "e", " ", "t", "w", "o", " ", "t", "h", "r", "e", "e">>

OneTwoThrdd ==
    <<"o", "n", "e", " ", "t", "w", "o", " ", "t", "h", "r", "d", "d">>

\* C1: in every reachable state 0 <= cursor_pos <= len(input).
C1_CursorInBounds == cursor_pos >= 0 /\ cursor_pos <= Len(input)

\* C1 witness: a backspace has moved the cursor back from the end of a
\* three-keystroke sequence.
C1_Witness ==
    op[1] = "backspace" /\ pre.cursor_pos = 3 /\ cursor_pos = 2 /\ ~panicked

\* C2: has_finished is true iff the number of keystrokes equals the number of
\* characters of the prompt, or the timer has expired, or death_mode is on
\* and some keystroke is Incorrect.
C2_FinishedIffCharsTyped ==
    has_finished <=>
        \/ Len(input) = Len(prompt)
        \/ (seconds_remaining # {} /\ \A v \in seconds_remaining : v <= 0)
        \/ (death_mode /\ \E i \in 1..Len(input) : input[i].outcome = "Incorrect")

\* C3, as claimed: a session that was finished when write, backspace,
\* word_backspace or on_tick was called is finished after the call.
C3_FinishedAbsorbing ==
    (op[1] \in EditOps /\ PreFinished) => has_finished

\* C3, amended: a finished session stays finished after write and on_tick,
\* and after backspace and word_backspace when the timer had expired.
C3_FinishedAbsorbingAmended ==
    (/\ op[1] \in EditOps
     /\ PreFinished
     /\ (op[1] \in {"write", "on_tick"} \/ PreOutOfTime))
    => has_finished

\* C3 witness: the timer had expired with keystrokes typed, a backspace
\* removed one, and the session is still finished.
C3_Witness ==
    /\ op[1] = "backspace"
    /\ PreOutOfTime
    /\ Len(pre.input) > 0
    /\ Len(input) < Len(pre.input)
    /\ has_finished

\* C4: write called with as many keystrokes as prompt characters raises no
\* failure and leaves every session field unchanged.
C4_WritePastPromptNoOp ==
    (op[1] = "write" /\ Len(pre.input) = Len(prompt))
    => (/\ ~panicked
        /\ input = pre.input
        /\ cursor_pos = pre.cursor_pos
        /\ RestUnchanged)

\* C5: backspace at cursor_pos = 0 and word_backspace on no keystrokes change
\* nothing and raise no failure; backspace at cursor_pos > 0 removes exactly
\* the keystroke at index cursor_pos - 1, keeps the others in order and
\* moves the cursor back by one.
C5_BackspaceFrame ==
    /\ (op[1] = "backspace" /\ pre.cursor_pos = 0)
       => (~panicked /\ input = pre.input /\ cursor_pos = 0 /\ RestUnchanged)
    /\ (op[1] = "word_backspace" /\ pre.input = << >>)
       => (/\ ~panicked
           /\ input = << >>
           /\ cursor_pos = pre.cursor_pos
           /\ RestUnchanged)
    /\ (op[1] = "backspace" /\ pre.cursor_pos > 0)
       => (/\ ~panicked
           /\ Len(input) = Len(pre.input) - 1
           /\ cursor_pos = pre.cursor_pos - 1
           /\ \A i \in 1..Len(input) :
                input[i] = IF i < pre.cursor_pos THEN pre.input[i]
                                                 ELSE pre.input[i + 1]
           /\ RestUnchanged)

\* C5 witness: backspace was called at cursor_pos = 0 on a session that had
\* been started and emptied again.
C5_Witness ==
    op[1] = "backspace" /\ pre.cursor_pos = 0 /\ pre.started_at # {}

\* C6: started_at is None after construction, no operation but write sets it,
\* the first accepted write sets it to the time of that write, and once set
\* it never changes.
C6_StartedAtFixed ==
    /\ op[1] = "new" => started_at = {}
    /\ op[1] \in {"backspace", "word_backspace", "on_tick", "calc_results"}
       => started_at = pre.started_at
    /\ op[1] = "write"
       => (/\ pre.started_at # {} => started_at = pre.started_at
           /\ (pre.started_at = {} /\ ~panicked) => started_at = {pre.now})

\* C6 witness: every keystroke had been deleted and, at a later time than
\* started_at, a write was accepted on the empty sequence.
C6_Witness ==
    /\ op[1] = "write"
    /\ ~panicked
    /\ pre.input = << >>
    /\ pre.started_at # {}
    /\ pre.now \notin pre.started_at

\* The keystrokes of s as a string of chars.
CharsOf(s) == [i \in 1..Len(s) |-> s[i].char]

\* build_input!(str): every char typed correctly, at one instant.
BuildInput(str) ==
    [i \in 1..Len(str) |->
        [char |-> str[i], outcome |-> "Correct", timestamp |-> 0]]

OneTwoThreeFour ==
    <<"o", "n", "e", " ", "t", "w", "o", " ", "t", "h", "r", "e", "e", " ",
      "f", "o", "u", "r">>

\* Where word_backspace stops on s: after the last space of s without its
\* trailing space, or at 0.
WordStart(s) ==
    LET base == IF s # << >> /\ s[Len(s)].char = " "
                THEN Len(s) - 1 ELSE Len(s)
        stops == {j \in 0..base : j = 0 \/ s[j].char = " "}
    IN  CHOOSE j \in stops : \A k \in stops : k <= j

\* C7: word_backspace removes a trailing space and then the trailing run of
\* non-space keystrokes: what is left is the prefix of the previous sequence
\* up to that point, empty or ending with a space, the cursor has moved back
\* by the number of keystrokes removed, and two calls on the fully typed
\* "one two three four" leave "one two three " and then "one two ".
C7_WordBackspace ==
    /\ op[1] = "word_backspace"
       => (/\ ~panicked
           /\ input = SubSeq(pre.input, 1, WordStart(pre.input))
           /\ (input = << >> \/ input[Len(input)].char = " ")
           /\ cursor_pos = pre.cursor_pos - (Len(pre.input) - Len(input))
           /\ RestUnchanged)
    /\ LET first == word_backspace_of(BuildInput(OneTwoThreeFour), 18)
           second == word_backspace_of(first.input, first.cursor_pos)
       IN  /\ CharsOf(first.input) = SubSeq(OneTwoThreeFour, 1, 14)
           /\ first.cursor_pos = 14
           /\ CharsOf(second.input) = SubSeq(OneTwoThreeFour, 1, 8)
           /\ second.cursor_pos = 8
           /\ ~second.panicked

\* C7 witness: word_backspace was called on a word followed by a space and
\* removed both.
C7_Witness ==
    /\ op[1] = "word_backspace"
    /\ Len(pre.input) = 2
    /\ pre.input[1].char # " "
    /\ pre.input[2].char = " "
    /\ input = << >>
    /\ cursor_pos = 0

\* C8: write(c) with fewer keystrokes than prompt characters records the
\* keystroke whatever its outcome: one record is inserted at cursor_pos, its
\* outcome is Correct iff c is the prompt character at index len(input)
\* before the insertion, and len(input) and cursor_pos grow by one.
C8_WriteRecords ==
    (op[1] = "write" /\ Len(pre.input) < Len(prompt))
    => (/\ ~panicked
        /\ Len(input) = Len(pre.input) + 1
        /\ cursor_pos = pre.cursor_pos + 1
        /\ input[cursor_pos].char = op[2]
        /\ input[cursor_pos].outcome = "Correct"
             <=> op[2] = prompt[Len(pre.input) + 1]
        /\ input[cursor_pos].outcome \in {"Correct", "Incorrect"}
        /\ \A i \in 1..Len(pre.input) :
             pre.input[i] = IF i <= pre.cursor_pos THEN input[i]
                                                   ELSE input[i + 1])

\* C8 witness: a wrong character was written as the second keystroke and is
\* recorded as Incorrect.
C8_Witness ==
    /\ op[1] = "write"
    /\ ~panicked
    /\ Len(input) = 2
    /\ input[2].outcome = "Incorrect"
    /\ input[2].char # prompt[2]

\* Number of header lines in a log.
Headers(l) == Cardinality({i \in 1..Len(l) : l[i] = Header})

\* C9: from a log path that does not exist, when each of the N calls of
\* save_results so far has written its row, the log is one header line
\* followed by N rows of as many columns (7) as the header; and a call made
\* when the file exists writes no header.
C9_HeaderOnce ==
    /\ persisted = saves
       => (/\ Len(log) = IF saves = 0 THEN 0 ELSE saves + 1
           /\ \A i \in 1..Len(log) :
                /\ (i = 1) <=> (log[i] = Header)
                /\ Len(log[i]) = Len(Header)
                /\ Len(log[i]) = 7)
    /\ (op[1] = "calc_results" /\ pre.log_exists)
       => Headers(log) = Headers(pre.log)

\* C9 witness: two sessions have persisted their results one after another.
C9_Witness ==
    /\ saves = 2
    /\ persisted = 2
    /\ sessions = 2
    /\ op[1] = "calc_results"
    /\ log = <<Header, Row, Row>>

\* C10: when save_results was reached and did not write its row, calc_results
\* has completed without a failure, wpm, accuracy, std_dev and wpm_coords
\* hold what the statistics of the session give, and save_results was called
\* once.
C10_ResultsSurviveFailedSave ==
    (op[1] = "calc_results" /\ persisted < saves)
    => (/\ ~panicked
        /\ phase = "results"
        /\ saves = 1
        /\ \E st \in started_at :
             LET b == correct_chars_per_sec(input, st, pre.now)
             IN  /\ wpm = calc_wpm(input, st, pre.now)
                 /\ accuracy = calc_accuracy(input)
                 /\ std_dev = calc_std_dev(b)
                 /\ wpm_coords = pre.results[4] \o new_wpm_coords(b))

\* C10 witness: the row write failed part of the way and the results of a
\* session with correct keystrokes are in place.
C10_Witness ==
    /\ op[1] = "calc_results"
    /\ persisted < saves
    /\ log = <<Header, TornRow>>
    /\ accuracy = <<"num", 100>>
    /\ wpm_coords # << >>

\* calc_results has run to its end on the session.
Calculated == op[1] = "calc_results" /\ ~panicked /\ phase = "results"

\* Number of keystrokes of s judged Correct.
NumCorrect(s) == Cardinality({i \in 1..Len(s) : s[i].outcome = "Correct"})

\* C11: calc_results on a started session with no keystrokes leaves
\* accuracy defined, as 0.
C11_EmptyAccuracyZero ==
    (Calculated /\ input = << >>) => accuracy = <<"num", 0>>

\* v is x / y rounded to the nearest integer, halves away from zero.
IsRounded(v, x, y) == (2 * v - 1) * y <= 2 * x /\ 2 * x < (2 * v + 1) * y

\* C12: after calc_results on a session with at least one keystroke,
\* accuracy is round(100 * correct / total); it is 100 when every keystroke
\* is Correct, and 85 for 11 correct keystrokes out of 13.
C12_AccuracyRounded ==
    /\ (Calculated /\ Len(input) >= 1)
       => (/\ accuracy[1] = "num"
           /\ IsRounded(accuracy[2], 100 * NumCorrect(input), Len(input))
           /\ NumCorrect(input) = Len(input) => accuracy[2] = 100)
    /\ calc_accuracy(BuildInputAgainst(OneTwoThrdd, OneTwoThree, 0))
         = <<"num", 85>>

\* The words of s that split(' ') yields, each given by the index before its
\* first keystroke: 0 and the index of every space.
WordStarts(s) == {0} \cup {i \in 1..Len(s) : s[i].char = " "}

\* The word after index i has no Incorrect keystroke.
WordCorrect(s, i) ==
    \A k \in (i + 1)..Len(s) :
        s[k].outcome = "Incorrect" => \E j \in (i + 1)..k : s[j].char = " "

\* C13: after calc_results with some time elapsed, wpm is
\* ceil(correct words / (elapsed seconds / 60)), a word being correct when
\* none of its keystrokes is Incorrect; "one two three" typed correctly gives
\* 180 after one second and 60 after three.
C13_WpmFormula ==
    /\ Calculated
       => \A st \in started_at :
            pre.now > st
            => wpm = <<"num",
                       CeilDiv(60000 * Cardinality({i \in WordStarts(input) :
                                                      WordCorrect(input, i)}),
                               pre.now - st)>>
    /\ calc_wpm(BuildInput(OneTwoThree), 0, 1000) = <<"num", 180>>
    /\ calc_wpm(BuildInput(OneTwoThree), 0, 3000) = <<"num", 60>>

\* The pairs the last calc_results pushed to wpm_coords.
NewCoords == SubSeq(wpm_coords, Len(pre.results[4]) + 1, Len(wpm_coords))

\* The bucket key, in milliseconds, of a keystroke offset_ms after started_at
\* when elapsed_ms have elapsed: ceil(t) seconds while ceil(t) <= floor(E),
\* one second for t = 0, and E itself beyond floor(E).
ClampedKeyMs(offset_ms, elapsed_ms) ==
    IF offset_ms = 0 THEN 1000
    ELSE IF CeilDiv(offset_ms, 1000) <= elapsed_ms \div 1000
         THEN 1000 * CeilDiv(offset_ms, 1000)
         ELSE elapsed_ms

\* C14: after calc_results every correct keystroke is counted in the bucket
\* keyed ceil(t) when ceil(t) <= floor(E), t its offset from started_at and E
\* the elapsed time, both in seconds, and in the bucket keyed E otherwise.
C14_BucketKeys ==
    Calculated
    => \A st \in started_at : \A i \in 1..Len(input) :
         input[i].outcome = "Correct"
         => \E j \in 1..Len(NewCoords) :
              /\ 1000 * NewCoords[j][1]
                   = ClampedKeyMs(input[i].timestamp - st, pre.now - st)
              /\ NewCoords[j][2][1]
                   = 12 * Cardinality({k \in 1..Len(input) :
                       /\ input[k].outcome = "Correct"
                       /\ ClampedKeyMs(input[k].timestamp - st, pre.now - st)
                            <= 1000 * NewCoords[j][1]})

\* The keys of the histogram of the last calc_results.
HistKeys ==
    {BucketKey(input[i], st, pre.now) :
        st \in started_at,
        i \in {k \in 1..Len(input) : input[k].outcome = "Correct"}}

\* The number of correct keystrokes in the bucket keyed k.
HistCount(k) ==
    Cardinality({i \in 1..Len(input) :
        /\ input[i].outcome = "Correct"
        /\ \A st \in started_at : BucketKey(input[i], st, pre.now) = k})

RECURSIVE PairSquares(_)
\* The sum of (x - y)^2 over the pairs P of buckets, x and y their counts.
PairSquares(P) ==
    IF P = {} THEN 0
    ELSE LET p == CHOOSE q \in P : TRUE
             diff == HistCount(p[1]) - HistCount(p[2])
         IN  diff * diff + PairSquares(P \ {p})

\* C15: calc_results with started_at set raises no failure; after it std_dev
\* is exactly 0 when the histogram of correct keystrokes has no bucket or
\* one, and otherwise the population standard deviation of the counts of all
\* buckets but the last in time order: its square, the sum of (x - y)^2 over
\* the pairs of these n counts, over n^2.
C15_StdDev ==
    /\ (op[1] = "calc_results" /\ pre.started_at # {}) => ~panicked
    /\ Calculated
       => LET K == HistKeys
              rest == {k \in K : \E l \in K : k < l}
              n == Cardinality(rest)
          IN  /\ Cardinality(K) <= 1 => std_dev = <<0, 1>>
              /\ Cardinality(K) >= 2
                 => std_dev[1] * n * n
                      = std_dev[2]
                        * PairSquares({p \in rest \X rest : p[1] < p[2]})

\* Three buckets whose first two counts differ: a deviation that is not 0.
C15_Witness ==
    /\ Calculated
    /\ Cardinality(HistKeys) = 3
    /\ std_dev[1] > 0

\* C16: on_tick changes nothing but seconds_remaining: a timed session's
\* seconds_remaining goes down by the tick quantum on every call, below zero
\* too, an untimed session's stays None, and input, cursor_pos, started_at
\* and the results are as before the call.
C16_OnTickFrame ==
    op[1] = "on_tick"
    => /\ seconds_remaining = {v - TickQuantum : v \in pre.seconds_remaining}
       /\ pre.seconds_remaining = {} => seconds_remaining = {}
       /\ input = pre.input
       /\ cursor_pos = pre.cursor_pos
       /\ started_at = pre.started_at
       /\ results = pre.results
       /\ log_exists = pre.log_exists
       /\ log = pre.log
       /\ ~panicked

\* C16 witness: a tick took an expired timer below zero.
C16_Witness ==
    op[1] = "on_tick" /\ pre.seconds_remaining = {0} /\ seconds_remaining = {-1}

\* The timer has run out.
OutOfTime ==
    seconds_remaining # {} /\ \A v \in seconds_remaining : v <= 0

\* C17: in a timed session of positive duration whose ticks keep coming,
\* has_finished eventually holds whatever write, backspace and word_backspace
\* calls are interleaved (a call that panics ends the process and its ticks);
\* from the moment seconds_remaining <= 0 it holds for ever, and
\* seconds_remaining never increases.
C17_TimerExpires ==
    /\ (\A v \in number_of_secs : v > 0) => <>(has_finished \/ panicked)
    /\ [](OutOfTime => []has_finished)
    /\ [][\A v \in seconds_remaining :
            seconds_remaining' # {} /\ \A w \in seconds_remaining' : w <= v]_vars

\* C17 witness: the last tick of the timer ended a session that had been
\* started and whose prompt was not typed to the end.
C17_Witness ==
    /\ op[1] = "on_tick"
    /\ pre.seconds_remaining = {TickQuantum}
    /\ started_at # {}
    /\ Len(input) < Len(prompt)
    /\ has_finished
    /\ ~has_finished_of(prompt, death_mode, pre.input, pre.seconds_remaining)

\* C18: whenever has_finished holds, started_at is set, and so calc_results,
\* called on a finished session, reads started_at without failing; also for
\* an empty prompt and for a timer ticked out before the first keystroke.
C18_FinishedImpliesStarted ==
    /\ has_finished => started_at # {}
    /\ op[1] = "calc_results" => ~panicked

\* C19: with a clock that never goes backwards, the timestamps of the
\* keystroke sequence are non-decreasing by index and none is earlier than
\* started_at, after any interleaving of write, backspace and word_backspace.
C19_TimestampsOrdered ==
    /\ \A i \in 1..Len(input) : \A j \in i..Len(input) :
         input[i].timestamp <= input[j].timestamp
    /\ \A i \in 1..Len(input) :
         started_at # {} /\ \A st \in started_at : st <= input[i].timestamp

\* C19 witness: after a keystroke was removed and time passed, two keystrokes
\* typed at different times, both later than started_at.
C19_Witness ==
    /\ op[1] = "write"
    /\ Len(input) >= 2
    /\ \A st \in started_at : st < input[1].timestamp
    /\ input[1].timestamp < input[2].timestamp

\* C20: cursor_pos equals the length of the keystroke sequence in every
\* state reached through write, backspace, word_backspace and on_tick.
C20_CursorAtEnd == cursor_pos = Len(input)

\* C20 witness: word_backspace removed a word and left keystrokes behind,
\* with the cursor at their end.
C20_Witness ==
    /\ op[1] = "word_backspace"
    /\ Len(input) >= 1
    /\ Len(input) < Len(pre.input)
    /\ cursor_pos = Len(input)

\* C21: in every state reached through write, backspace, word_backspace and
\* on_tick, each keystroke lies within the prompt and its outcome is Correct
\* if and only if its character is the prompt character at its own index.
C21_OutcomeMatchesPrompt ==
    \A i \in 1..Len(input) :
        /\ i <= Len(prompt)
        /\ input[i].outcome = "Correct" <=> input[i].char = prompt[i]

\* C21 witness: the first keystroke was deleted and typed again later, and
\* the sequence holds a Correct and an Incorrect keystroke.
C21_Witness ==
    /\ op[1] = "write"
    /\ ~panicked
    /\ Len(input) >= 2
    /\ \A st \in started_at : st < input[1].timestamp
    /\ \E i \in 1..Len(input) : input[i].outcome = "Correct"
    /\ \E i \in 1..Len(input) : input[i].outcome = "Incorrect"

\* C22: write called on a session that is not finished raises no failure,
\* whatever the character and whatever the prompt, multi-byte prompts
\* included: the expected character at index len(input) exists.
C22_WriteSucceedsUnfinished ==
    (op[1] = "write" /\ ~PreFinished)
    => (~panicked /\ Len(pre.input) < Len(prompt))

\* C23: with fewer keystrokes than prompt characters, write(c) followed at
\* once by backspace() leaves input and cursor_pos as they were before the
\* write, for every c; of the other fields only started_at may differ, and
\* only when the write was the first keystroke of the session.  In the step
\* that is the backspace, op and pre still describe the write.
C23_WriteBackspaceRoundTrip ==
    [][(/\ op[1] = "write"
        /\ Len(pre.input) < Len(prompt)
        /\ op'[1] = "backspace")
       => (/\ ~panicked'
           /\ input' = pre.input
           /\ cursor_pos' = pre.cursor_pos
           /\ seconds_remaining' = pre.seconds_remaining
           /\ results' = pre.results
           /\ config' = config
           /\ started_at' # pre.started_at
              => (pre.input = << >> /\ pre.started_at = {}))]_vars

\* C23 witness: a backspace has removed the keystroke typed at the current
\* clock reading, on a session started earlier and emptied since, and has
\* left input empty again with started_at as it was.
C23_Witness ==
    /\ op[1] = "backspace"
    /\ ~panicked
    /\ Len(pre.input) = 1
    /\ pre.input[1].timestamp = now
    /\ input = << >>
    /\ cursor_pos = 0
    /\ \A st \in started_at : st < now

====
